---- MODULE Spec2Model ----
(***************************************************************************)
(* Model of kokoros/src/tts/phonemizer.rs: construction of a Phonemizer    *)
(* from a language tag, and the phoneme post-processing pipeline of        *)
(* Phonemizer::phonemize.                                                  *)
(*                                                                         *)
(* A Rust String is modelled as a sequence of Unicode scalar values        *)
(* (char), written as code points: k = 107, U+0259 = 601, U+02C8 = 712 ... *)
(* The three Regex statics are modelled by what their patterns denote,     *)
(* look-around included: a zero-width assertion reads the haystack and     *)
(* consumes nothing.                                                       *)
(***************************************************************************)
EXTENDS Integers, Sequences, FiniteSets, TLC

VARIABLES VOCAB, espeak, phonemizer, new_result, call

vars == <<VOCAB, espeak, phonemizer, new_result, call>>

(***************************************************************************)
(* Bounds of the model.                                                    *)
(***************************************************************************)
MaxTokens == 2

(***************************************************************************)
(* String literals of the source.                                          *)
(***************************************************************************)
\* "k@k'o:Jou" with IPA letters: U+006B U+0259 U+006B U+02C8 U+006F U+02D0 U+0279 U+006F U+028A
KOKORO_US_RAW == <<107, 601, 107, 712, 111, 720, 633, 111, 650>>
KOKORO_US_FIX == <<107, 712, 111, 650, 107, 601, 633, 111, 650>>
KOKORO_GB_RAW == <<107, 601, 107, 712, 596, 720, 633, 601, 650>>
KOKORO_GB_FIX == <<107, 712, 601, 650, 107, 601, 633, 601, 650>>
\* U+02B2 (palatalization) -> j, r -> U+0279, x -> k, U+026C -> l
PALATAL == <<690>>
LETTER_J == <<106>>
LETTER_R == <<114>>
TURNED_R == <<633>>
LETTER_X == <<120>>
LETTER_K == <<107>>
BELTED_L == <<620>>
LETTER_L == <<108>>
\* "h'VndJId": U+0068 U+02C8 U+028C U+006E U+0064 U+0279 U+026A U+0064
HUNDRED == <<104, 712, 652, 110, 100, 633, 618, 100>>
\* "n'aIn": U+006E U+02C8 U+0061 U+026A U+006E
NINE == <<110, 712, 97, 618, 110>>
TI == <<116, 105>>
NINETY == NINE \o TI
FULL_STOP == <<46>>
DI == <<100, 105>>
SPACE_Z == <<32, 122>>
LETTER_Z == <<122>>
SPACE == <<32>>
\* U+02D0, the length mark
LONG == <<720>>
\* the class [a-z U+0279 U+02D0] of the look-behind of PHONEME_PATTERNS
HUNDRED_BEFORE == (97..122) \cup {633, 720}
\* the class [;:,.!? U+00A1 U+00BF U+2014 U+2026 " U+00AB U+00BB " " space]
Z_FOLLOW == {59, 58, 44, 46, 33, 63, 161, 191, 8212, 8230, 34, 171, 187, 32}
\* char::is_whitespace, the characters str::trim removes
WHITE_SPACE == {9, 10, 11, 12, 13, 32, 133, 160, 5760, 8232, 8233, 8239, 8287, 12288}
                  \cup (8192..8202)

(***************************************************************************)
(* Option and Result values.                                               *)
(***************************************************************************)
None == [some |-> FALSE, v |-> <<>>]
Some(x) == [some |-> TRUE, v |-> x]

(***************************************************************************)
(* Phonemizer::lang_code                                                   *)
(***************************************************************************)
\* lang_code with the arm for "b" returning the locale of "a"
lang_code_wrong_locale(lang) ==
    CASE lang = "a" -> Some("en-us")
      [] lang = "b" -> Some("en-us")
      [] lang = "e" -> Some("es")
      [] lang = "f" -> Some("fr-fr")
      [] lang = "h" -> Some("hi")
      [] lang = "i" -> Some("it")
      [] lang = "p" -> Some("pt-br")
      [] OTHER -> None

lang_code(lang) ==
    CASE lang = "a" -> Some("en-us")
      [] lang = "b" -> Some("en-gb")
      [] lang = "e" -> Some("es")
      [] lang = "f" -> Some("fr-fr")
      [] lang = "h" -> Some("hi")
      [] lang = "i" -> Some("it")
      [] lang = "p" -> Some("pt-br")
      [] OTHER -> None

\* EspeakBackend::new
EspeakBackend_new(language, preserve_punctuation, with_stress) ==
    [language |-> language,
     preserve_punctuation |-> preserve_punctuation,
     with_stress |-> with_stress]

NoBackend == [language |-> "", preserve_punctuation |-> FALSE, with_stress |-> FALSE]

\* Phonemizer::build_backend: Ok(backend) or Err(UnsupportedLanguage(lang))
build_backend(lang) ==
    LET code == lang_code(lang) IN
    IF code.some
    THEN [ok |-> TRUE, backend |-> EspeakBackend_new(code.v, TRUE, TRUE),
          err |-> "", tag |-> ""]
    ELSE [ok |-> FALSE, backend |-> NoBackend,
          err |-> "UnsupportedLanguage", tag |-> lang]

(***************************************************************************)
(* str::replace: every non-overlapping occurrence of from, left to right.  *)
(***************************************************************************)
RECURSIVE str_replace(_, _, _)
str_replace(s, from, to) ==
    IF Len(s) < Len(from) THEN s
    ELSE IF SubSeq(s, 1, Len(from)) = from
         THEN to \o str_replace(SubSeq(s, Len(from) + 1, Len(s)), from, to)
         ELSE <<Head(s)>> \o str_replace(Tail(s), from, to)

(***************************************************************************)
(* The three patterns: the length of the match that starts at offset i of  *)
(* s (i symbols precede it), or -1 when the pattern does not match there.  *)
(***************************************************************************)
\* PHONEME_PATTERNS without its look-behind: (?=h'VndJId)
PHONEME_PATTERNS_no_lookbehind(s, i) ==
    IF /\ i + Len(HUNDRED) <= Len(s)
       /\ SubSeq(s, i + 1, i + Len(HUNDRED)) = HUNDRED
    THEN 0 ELSE -1

\* (?<=[a-z..])(?=h'VndJId): an empty match
PHONEME_PATTERNS(s, i) ==
    IF /\ i >= 1
       /\ s[i] \in HUNDRED_BEFORE
       /\ i + Len(HUNDRED) <= Len(s)
       /\ SubSeq(s, i + 1, i + Len(HUNDRED)) = HUNDRED
    THEN 0 ELSE -1

\* Z_PATTERN without its look-ahead: " z"
Z_PATTERN_no_lookahead(s, i) ==
    IF /\ i + 2 <= Len(s)
       /\ SubSeq(s, i + 1, i + 2) = SPACE_Z
    THEN 2 ELSE -1

\* " z(?=[...]|$)"
Z_PATTERN(s, i) ==
    IF /\ i + 2 <= Len(s)
       /\ SubSeq(s, i + 1, i + 2) = SPACE_Z
       /\ \/ i + 2 = Len(s)
          \/ s[i + 3] \in Z_FOLLOW
    THEN 2 ELSE -1

\* (?<=n'aIn)ti(?!:)
NINETY_PATTERN(s, i) ==
    IF /\ i >= Len(NINE)
       /\ SubSeq(s, i - Len(NINE) + 1, i) = NINE
       /\ i + 2 <= Len(s)
       /\ SubSeq(s, i + 1, i + 2) = TI
       /\ ~ (i + 3 <= Len(s) /\ <<s[i + 3]>> = LONG)
    THEN 2 ELSE -1

find_at(re, s, i) ==
    CASE re = "PHONEME_PATTERNS" -> PHONEME_PATTERNS(s, i)
      [] re = "Z_PATTERN" -> Z_PATTERN(s, i)
      [] re = "NINETY_PATTERN" -> NINETY_PATTERN(s, i)

(***************************************************************************)
(* Regex::replace_all: the leftmost matches, none overlapping, each        *)
(* replaced by rep; an empty match is followed by the search resuming one  *)
(* symbol further.                                                         *)
(***************************************************************************)
RECURSIVE replace_from(_, _, _, _)
replace_from(re, s, rep, i) ==
    IF i > Len(s) THEN <<>>
    ELSE LET m == find_at(re, s, i)
             step == IF i < Len(s)
                     THEN <<s[i + 1]>> \o replace_from(re, s, rep, i + 1)
                     ELSE <<>>
         IN  IF m < 0 THEN step
             ELSE IF m = 0 THEN rep \o step
             ELSE rep \o replace_from(re, s, rep, i + m)

replace_all(re, s, rep) == replace_from(re, s, rep, 0)

(***************************************************************************)
(* str::trim                                                               *)
(***************************************************************************)
RECURSIVE trim_start(_)
trim_start(s) ==
    IF s # <<>> /\ Head(s) \in WHITE_SPACE THEN trim_start(Tail(s)) ELSE s

RECURSIVE trim_end(_)
trim_end(s) ==
    IF s # <<>> /\ s[Len(s)] \in WHITE_SPACE
    THEN trim_end(SubSeq(s, 1, Len(s) - 1)) ELSE s

trim(s) == trim_end(trim_start(s))

(***************************************************************************)
(* The steps of Phonemizer::phonemize, in the order of the code.           *)
(***************************************************************************)
\* kokoro_replacements with replacen(.., 1): the first occurrence only
RECURSIVE str_replace_first(_, _, _)
str_replace_first(s, from, to) ==
    IF Len(s) < Len(from) THEN s
    ELSE IF SubSeq(s, 1, Len(from)) = from
         THEN to \o SubSeq(s, Len(from) + 1, Len(s))
         ELSE <<Head(s)>> \o str_replace_first(Tail(s), from, to)

kokoro_replacements_first_only(ps) ==
    str_replace_first(str_replace_first(ps, KOKORO_US_RAW, KOKORO_US_FIX),
                      KOKORO_GB_RAW, KOKORO_GB_FIX)

\* "Apply kokoro-specific replacements"
kokoro_replacements(ps) ==
    str_replace(str_replace(ps, KOKORO_US_RAW, KOKORO_US_FIX),
                KOKORO_GB_RAW, KOKORO_GB_FIX)

\* CHAR_REPLACEMENTS with x mapped to r, a symbol another pair rewrites
CHAR_REPLACEMENTS_x_to_r ==
    <<[from |-> PALATAL, to |-> LETTER_J],
      [from |-> LETTER_R, to |-> TURNED_R],
      [from |-> LETTER_X, to |-> LETTER_R],
      [from |-> BELTED_L, to |-> LETTER_L]>>

\* The four literal pairs of "Apply character replacements", in source order
CHAR_REPLACEMENTS ==
    <<[from |-> PALATAL, to |-> LETTER_J],
      [from |-> LETTER_R, to |-> TURNED_R],
      [from |-> LETTER_X, to |-> LETTER_K],
      [from |-> BELTED_L, to |-> LETTER_L]>>

\* The pairs of CHAR_REPLACEMENTS applied in the order given by the
\* sequence of indices order, the first index first
RECURSIVE replace_in_order(_, _)
replace_in_order(ps, order) ==
    IF order = <<>> THEN ps
    ELSE replace_in_order(
             str_replace(ps, CHAR_REPLACEMENTS[Head(order)].from,
                         CHAR_REPLACEMENTS[Head(order)].to),
             Tail(order))

\* char_replacements without its second pair, r -> U+0279
char_replacements_without_r(ps) == replace_in_order(ps, <<1, 3, 4>>)

\* "Apply character replacements"
char_replacements(ps) == replace_in_order(ps, <<1, 2, 3, 4>>)

\* ps = PHONEME_PATTERNS.replace_all(&ps, " ")
hundred_rule(ps) == replace_all("PHONEME_PATTERNS", ps, SPACE)

\* ps = Z_PATTERN.replace_all(&ps, "z")
z_rule(ps) == replace_all("Z_PATTERN", ps, LETTER_Z)

\* ninety_rule without the test of the language
ninety_rule_any_language(lang, ps) == replace_all("NINETY_PATTERN", ps, DI)

\* if self.lang == "a" { ps = NINETY_PATTERN.replace_all(&ps, "di") }
ninety_rule(lang, ps) ==
    IF lang = "a" THEN replace_all("NINETY_PATTERN", ps, DI) ELSE ps

\* vocab_filter with the test of membership left out
vocab_filter_skipped(ps, vocab) == ps

\* ps.chars().filter(|&c| VOCAB.contains_key(&c)).collect()
vocab_filter(ps, vocab) == SelectSeq(ps, LAMBDA c : c \in vocab)

(***************************************************************************)
(* Inputs.  A raw phoneme string is a concatenation of at most MaxTokens   *)
(* tokens: the words the rules are about and the symbols around them.      *)
(***************************************************************************)
Tokens ==
    {KOKORO_US_RAW, KOKORO_GB_RAW, HUNDRED, NINETY, TI, LONG, SPACE,
     LETTER_Z, SPACE_Z, FULL_STOP, LETTER_R, LETTER_X, PALATAL, BELTED_L}

RECURSIVE Concats(_)
Concats(n) ==
    IF n = 0 THEN {<<>>}
    ELSE LET P == Concats(n - 1) IN P \cup {p \o t : p \in P, t \in Tokens}

Raws == Concats(MaxTokens)

Alphabet == UNION {{t[k] : k \in 1..Len(t)} : t \in Tokens}
               \cup {106, 108, 100}

\* Vocabularies: every symbol of the alphabet, and the alphabet without the
\* full stop, the length mark and the letters d and k.
Vocabularies ==
    {Alphabet, Alphabet \ {46, 720, 100, 107}}

SupportedTags == {"a", "b", "e", "f", "h", "i", "p"}

LanguageTags == SupportedTags \cup {"z", "en-us"}

\* What EspeakBackend::phonemize does when called: the placeholder's todo!()
\* panics; an implementation returns None or Some(vector of strings).
BackendOutcomes ==
    {[kind |-> "todo", out |-> None]}
      \cup {[kind |-> "ret", out |-> None]}
      \cup {[kind |-> "ret", out |-> Some(<<>>)]}
      \cup {[kind |-> "ret", out |-> Some(<<s>>)] : s \in Raws}
      \cup {[kind |-> "ret", out |-> Some(<<s, LETTER_X>>)] : s \in Concats(1)}

NoPhonemizer == [made |-> FALSE, lang |-> "", backend |-> NoBackend]

NoCall ==
    [status |-> "none", raw |-> <<>>, lex |-> <<>>,
     chars |-> <<>>, hundred |-> <<>>, z |-> <<>>, ninety |-> <<>>,
     filtered |-> <<>>, ret |-> <<>>]

Init ==
    /\ VOCAB \in Vocabularies
    /\ espeak \in BackendOutcomes
    /\ phonemizer = NoPhonemizer
    /\ new_result = [called |-> FALSE, arg |-> "", ok |-> FALSE, err |-> "", tag |-> ""]
    /\ call = NoCall

(***************************************************************************)
(* Phonemizer::new(lang).  The model follows one Phonemizer: new is tried  *)
(* until it succeeds, and the Phonemizer it gives is never changed.        *)
(***************************************************************************)
New(lang) ==
    /\ ~ phonemizer.made
    /\ LET b == build_backend(lang) IN
       /\ new_result' = [called |-> TRUE, arg |-> lang, ok |-> b.ok,
                          err |-> b.err, tag |-> b.tag]
       /\ phonemizer' = IF b.ok
                        THEN [made |-> TRUE, lang |-> lang, backend |-> b.backend]
                        ELSE phonemizer
    /\ UNCHANGED <<VOCAB, espeak, call>>

(***************************************************************************)
(* Phonemizer::phonemize(text, normalize).  The text, normalized or not,   *)
(* goes to the backend, whose answer is espeak: nothing that follows reads *)
(* the text or the flag.  A panic ends the caller.                         *)
(***************************************************************************)
Panicked(why) == [NoCall EXCEPT !.status = why]

\* first_output with the backend's answer unwrapped: None panics
first_output_unwrap(out) ==
    IF ~ out.some \/ out.v = <<>> THEN [panic |-> TRUE, ps |-> <<>>]
    ELSE [panic |-> FALSE, ps |-> out.v[1]]

\* match self.backend.phonemize(&[text]) { Some(phonemes) => phonemes[0].clone(),
\*                                         None => String::new() }
\* Indexing an empty vector panics.
first_output(out) ==
    IF ~ out.some THEN [panic |-> FALSE, ps |-> <<>>]
    ELSE IF out.v = <<>> THEN [panic |-> TRUE, ps |-> <<>>]
    ELSE [panic |-> FALSE, ps |-> out.v[1]]

pipeline(lang, vocab, raw) ==
    LET lex == kokoro_replacements(raw)
        chars == char_replacements(lex)
        hundred == hundred_rule(chars)
        z == z_rule(hundred)
        ninety == ninety_rule(lang, z)
        filtered == vocab_filter(ninety, vocab)
    IN  [status |-> "returned", raw |-> raw, lex |-> lex,
         chars |-> chars, hundred |-> hundred, z |-> z, ninety |-> ninety,
         filtered |-> filtered, ret |-> trim(filtered)]

Phonemize(normalize) ==
    /\ phonemizer.made
    /\ call.status \notin {"panic_todo", "panic_index"}
    /\ call' =
         IF espeak.kind = "todo" THEN Panicked("panic_todo")
         ELSE LET first == first_output(espeak.out) IN
              IF first.panic THEN Panicked("panic_index")
              ELSE pipeline(phonemizer.lang, VOCAB, first.ps)
    /\ UNCHANGED <<VOCAB, espeak, phonemizer, new_result>>

Next ==
    \/ \E lang \in LanguageTags : New(lang)
    \/ \E normalize \in BOOLEAN : Phonemize(normalize)

Spec == Init /\ [][Next]_vars

(***************************************************************************)
(* Properties.                                                             *)
(***************************************************************************)
Returned == call.status = "returned"

Symbols(s) == {s[k] : k \in 1..Len(s)}

\* C1: every symbol of the string phonemize returns is a member of VOCAB,
\* whatever the language tag, the normalize flag and the backend's answer.
C1_OutputInVocab ==
    Returned => \A k \in 1..Len(call.ret) : call.ret[k] \in VOCAB

\* phonemize has returned a non-empty string after dropping a symbol that
\* is not in VOCAB
C1_Witness ==
    /\ Returned
    /\ call.ret # <<>>
    /\ \E k \in 1..Len(call.ninety) : call.ninety[k] \notin VOCAB

\* C2: whenever the backend returns (no result, or a vector of strings),
\* phonemize returns a string and does not panic.
C2_NeverPanics ==
    espeak.kind = "ret" => call.status \in {"none", "returned"}

ExpectedLocale ==
    [t \in SupportedTags |->
        CASE t = "a" -> "en-us" [] t = "b" -> "en-gb" [] t = "e" -> "es"
          [] t = "f" -> "fr-fr" [] t = "h" -> "hi" [] t = "i" -> "it"
          [] t = "p" -> "pt-br"]

\* C4: new(tag) succeeds exactly for the seven tags, the backend then
\* carries the tag's locale; any other tag fails with
\* UnsupportedLanguage(tag) and no Phonemizer exists.
C4_NewResolves ==
    new_result.called =>
        /\ new_result.ok <=> new_result.arg \in {"a", "b", "e", "f", "h", "i", "p"}
        /\ new_result.ok =>
              /\ phonemizer.made
              /\ phonemizer.lang = new_result.arg
              /\ phonemizer.backend.language = ExpectedLocale[new_result.arg]
        /\ ~ new_result.ok =>
              /\ new_result.err = "UnsupportedLanguage"
              /\ new_result.tag = new_result.arg
              /\ ~ phonemizer.made

\* new("b") has succeeded
C4_Witness ==
    /\ new_result.ok
    /\ phonemizer.made
    /\ phonemizer.lang = "b"

\* C4, the failing side: new of an unsupported tag has failed
C4_WitnessFailure == new_result.called /\ ~ new_result.ok

\* The positions of s holding the t of a "ti" that follows NINE at once and
\* that the length mark does not follow at once
NinetyPositions(s) ==
    {k \in 1..Len(s) :
        /\ k + 1 <= Len(s)
        /\ s[k] = 116 /\ s[k + 1] = 105
        /\ k - 1 >= 5
        /\ SubSeq(s, k - 5, k - 1) = NINE
        /\ ~ (k + 2 <= Len(s) /\ s[k + 2] = 720)}

C5_WitnessOther ==
    /\ Returned
    /\ phonemizer.lang = "b"
    /\ NinetyPositions(call.z) # {}
    /\ call.ninety = call.z

\* The positions of s where word starts
Occurrences(s, word) ==
    {j \in 1..Len(s) :
        j + Len(word) - 1 <= Len(s) /\ SubSeq(s, j, j + Len(word) - 1) = word}

\* The symbol the lexical fix-ups are to leave at position k of s
LexExpected(s, k) ==
    LET us == {j \in Occurrences(s, KOKORO_US_RAW) : j <= k /\ k < j + 9}
        gb == {j \in Occurrences(s, KOKORO_GB_RAW) : j <= k /\ k < j + 9}
    IN  IF us # {} THEN KOKORO_US_FIX[k - (CHOOSE j \in us : TRUE) + 1]
        ELSE IF gb # {} THEN KOKORO_GB_FIX[k - (CHOOSE j \in gb : TRUE) + 1]
        ELSE s[k]

C6_WitnessTwice ==
    /\ Returned
    /\ Cardinality(Occurrences(call.raw, KOKORO_US_RAW)
                     \cup Occurrences(call.raw, KOKORO_GB_RAW)) = 2
    /\ call.lex # call.raw

\* The symbols of s at the positions outside drop, in order
RECURSIVE Without(_, _, _)
Without(s, drop, k) ==
    IF k > Len(s) THEN <<>>
    ELSE (IF k \in drop THEN <<>> ELSE <<s[k]>>) \o Without(s, drop, k + 1)

\* The positions of the spaces of s that z follows at once, the z being
\* the last symbol or followed at once by a symbol of the class
ZSpaces(s) ==
    {k \in 1..Len(s) :
        /\ s[k] = 32
        /\ k + 1 <= Len(s)
        /\ s[k + 1] = 122
        /\ (k + 1 = Len(s) \/ s[k + 2] \in Z_FOLLOW)}

C7_WitnessLetter ==
    /\ Returned
    /\ \E k \in 1..Len(call.hundred) :
          /\ k + 2 <= Len(call.hundred)
          /\ SubSeq(call.hundred, k, k + 1) = SPACE_Z
          /\ call.hundred[k + 2] \in 97..122
    /\ call.z = call.hundred

\* The positions of s where HUNDRED starts right after a lowercase letter,
\* U+0279 or the length mark
HundredPositions(s) ==
    {k \in 2..Len(s) :
        /\ k \in Occurrences(s, HUNDRED)
        /\ s[k - 1] \in (97..122) \cup {633, 720}}

\* s with one space put before each position of at
RECURSIVE SpacedAt(_, _, _)
SpacedAt(s, at, k) ==
    IF k > Len(s) THEN <<>>
    ELSE (IF k \in at THEN <<32, s[k]>> ELSE <<s[k]>>) \o SpacedAt(s, at, k + 1)

C8_WitnessNone ==
    /\ Returned
    /\ Occurrences(call.chars, HUNDRED) # {}
    /\ HundredPositions(call.chars) = {}
    /\ call.hundred = call.chars

\* The orders of the four pairs
Permutations4 == {o \in [1..4 -> 1..4] : {o[k] : k \in 1..4} = 1..4}

\* C9: applying the four character substitutions in any order gives the
\* string the code's order gives.
C9_OrderIndependent ==
    Returned =>
        \A o \in Permutations4 :
            replace_in_order(call.lex, <<o[1], o[2], o[3], o[4]>>) = call.chars

\* the substitutions have rewritten a string holding two of their symbols
C9_Witness ==
    /\ Returned
    /\ Cardinality(Symbols(call.lex) \cap {690, 114, 120, 620}) >= 2
    /\ call.chars # call.lex

\* C10: no returned string holds any of U+02B2, r, x, U+026C.
C10_NoNormalizedSymbol ==
    Returned => Symbols(call.ret) \cap {690, 114, 120, 620} = {}

\* a raw string with such a symbol, a vocabulary with all four, and a
\* non-empty string returned
C10_Witness ==
    /\ Returned
    /\ Symbols(call.raw) \cap {690, 114, 120, 620} # {}
    /\ {690, 114, 120, 620} \subseteq VOCAB
    /\ call.ret # <<>>

====
